---- MODULE Spec2Model ----
(***************************************************************************)
(* Allwinner D1 internal LDO driver (drivers/regulator/sun20i-regulator.c) *)
(* Ladder arithmetic, bit-field control of the shared register word, the   *)
(* band-gap trim calibration and the probe (bring-up) of one rail set.     *)
(***************************************************************************)
EXTENDS Integers, Sequences, FiniteSets, TLC

\* ------------------------------------------------------------------ bounds
\* targets tried around every ladder voltage: voltage - Delta .. voltage + Delta
Delta == 1
\* selectors 0..MaxSel (and the ones around n_voltages) are passed to set_voltage_sel
MaxSel == 1
\* probe attempts of one device
MaxAttempts == 2

\* --------------------------------------------------------------- constants
EINVAL == 22
EPROBE_DEFER == 517

\* ------------------------------------------------------------ bit helpers
\* A 32-bit word is the set of the positions of its set bits, so that bit 31
\* is representable: a & b is \cap, a | b is \cup, a & ~b is set difference.
WordBits == 0 .. 31

GENMASK(h, l) == l .. h

BIT(n) == { n }

\* ffs(mask) - 1: index of the least significant set bit
ffs_m1(mask) == CHOOSE b \in mask : \A o \in mask : b <= o

\* bit k of the unsigned value val
RECURSIVE BitOf(_, _)
BitOf(val, k) == IF k = 0 THEN val % 2 ELSE BitOf(val \div 2, k - 1)

\* the 32-bit word of the unsigned value val shifted left by shift
ShiftLeft(val, shift) ==
    { b \in WordBits : b >= shift /\ BitOf(val, b - shift) = 1 }

RECURSIVE BitsValue(_, _)
BitsValue(bits, shift) ==
    IF bits = {} THEN 0
    ELSE LET b == CHOOSE x \in bits : TRUE
         IN  (2 ^ (b - shift)) + BitsValue(bits \ { b }, shift)

\* the value stored in the field of word selected by mask
Field(word, mask) == BitsValue(word \cap mask, ffs_m1(mask))

\* ------------------------------------------------------------ descriptors
sun20i_d1_analog_ldo_ops ==
    [ list_voltage    |-> "regulator_list_voltage_linear",
      map_voltage     |-> "regulator_map_voltage_linear",
      set_voltage_sel |-> "regulator_set_voltage_sel_regmap",
      enable          |-> "regulator_enable_regmap",
      disable         |-> "regulator_disable_regmap" ]

sun20i_d1_system_ldo_ops_linear_map ==
    [ list_voltage    |-> "sun20i_d1_system_ldo_list_voltage",
      map_voltage     |-> "regulator_map_voltage_linear",
      set_voltage_sel |-> "regulator_set_voltage_sel_regmap",
      enable          |-> "NULL",
      disable         |-> "NULL" ]

sun20i_d1_system_ldo_ops ==
    [ list_voltage    |-> "sun20i_d1_system_ldo_list_voltage",
      map_voltage     |-> "regulator_map_voltage_ascend",
      set_voltage_sel |-> "regulator_set_voltage_sel_regmap",
      enable          |-> "NULL",
      disable         |-> "NULL" ]

sun20i_d1_analog_ldo_descs_overlap ==
    << [ name |-> "aldo", ops |-> "analog", n_voltages |-> 8,
         min_uV |-> 1650000, uV_step |-> 50000,
         vsel_mask |-> GENMASK(14, 12), enable_mask |-> BIT(31) ],
       [ name |-> "hpldo", ops |-> "analog", n_voltages |-> 8,
         min_uV |-> 1650000, uV_step |-> 50000,
         vsel_mask |-> GENMASK(12, 8), enable_mask |-> BIT(30) ] >>

sun20i_d1_analog_ldo_descs_enable31 ==
    << [ name |-> "aldo", ops |-> "analog", n_voltages |-> 8,
         min_uV |-> 1650000, uV_step |-> 50000,
         vsel_mask |-> GENMASK(14, 12), enable_mask |-> BIT(31) ],
       [ name |-> "hpldo", ops |-> "analog", n_voltages |-> 8,
         min_uV |-> 1650000, uV_step |-> 50000,
         vsel_mask |-> GENMASK(10, 8), enable_mask |-> BIT(31) ] >>

sun20i_d1_analog_ldo_descs ==
    << [ name |-> "aldo", ops |-> "analog", n_voltages |-> 8,
         min_uV |-> 1650000, uV_step |-> 50000,
         vsel_mask |-> GENMASK(14, 12), enable_mask |-> BIT(31) ],
       [ name |-> "hpldo", ops |-> "analog", n_voltages |-> 8,
         min_uV |-> 1650000, uV_step |-> 50000,
         vsel_mask |-> GENMASK(10, 8), enable_mask |-> BIT(30) ] >>

sun20i_d1_system_ldo_descs_n256 ==
    << [ name |-> "ldoa", ops |-> "system", n_voltages |-> 256,
         min_uV |-> 1600000, uV_step |-> 13333,
         vsel_mask |-> GENMASK(7, 0), enable_mask |-> {} ],
       [ name |-> "ldob", ops |-> "system", n_voltages |-> 256,
         min_uV |-> 1166666, uV_step |-> 13333,
         vsel_mask |-> GENMASK(15, 8), enable_mask |-> {} ] >>

sun20i_d1_system_ldo_descs ==
    << [ name |-> "ldoa", ops |-> "system", n_voltages |-> 32,
         min_uV |-> 1600000, uV_step |-> 13333,
         vsel_mask |-> GENMASK(7, 0), enable_mask |-> {} ],
       [ name |-> "ldob", ops |-> "system", n_voltages |-> 64,
         min_uV |-> 1166666, uV_step |-> 13333,
         vsel_mask |-> GENMASK(15, 8), enable_mask |-> {} ] >>

\* struct sun20i_regulator_data: init is TRUE when an init hook is set
sun20i_d1_analog_ldos ==
    [ init |-> TRUE, descs |-> sun20i_d1_analog_ldo_descs, ndescs |-> 2 ]

sun20i_d1_system_ldos ==
    [ init |-> FALSE, descs |-> sun20i_d1_system_ldo_descs, ndescs |-> 2 ]

\* of_device_get_match_data over sun20i_regulator_of_match
Compatibles == { "allwinner,sun20i-d1-analog-ldos",
                 "allwinner,sun20i-d1-system-ldos" }

sun20i_regulator_of_match(compatible) ==
    IF compatible = "allwinner,sun20i-d1-analog-ldos"
    THEN sun20i_d1_analog_ldos
    ELSE sun20i_d1_system_ldos

OpsOf(desc) ==
    IF desc.ops = "analog" THEN sun20i_d1_analog_ldo_ops
    ELSE sun20i_d1_system_ldo_ops

AllDescs ==
    { sun20i_d1_analog_ldo_descs[k] : k \in 1..2 } \cup
    { sun20i_d1_system_ldo_descs[k] : k \in 1..2 }

\* ------------------------------------------------------- ladder arithmetic
regulator_list_voltage_linear(desc, selector) ==
    IF selector >= desc.n_voltages THEN -EINVAL
    ELSE desc.min_uV + (desc.uV_step * selector)

sun20i_d1_system_ldo_list_voltage_mod3(desc, selector) ==
    IF selector >= desc.n_voltages THEN -EINVAL
    ELSE LET uV == desc.min_uV + (desc.uV_step * selector)
         IN  uV + ((selector + 1 + (desc.min_uV % 3)) \div 3)

sun20i_d1_system_ldo_list_voltage_naive(desc, selector) ==
    IF selector >= desc.n_voltages THEN -EINVAL
    ELSE desc.min_uV + (desc.uV_step * selector)

sun20i_d1_system_ldo_list_voltage(desc, selector) ==
    IF selector >= desc.n_voltages THEN -EINVAL
    ELSE LET uV == desc.min_uV + (desc.uV_step * selector)
         IN  uV + ((selector + 1 + (desc.min_uV % 4)) \div 3)

\* desc->ops->list_voltage
list_voltage(desc, selector) ==
    IF OpsOf(desc).list_voltage = "regulator_list_voltage_linear"
    THEN regulator_list_voltage_linear(desc, selector)
    ELSE sun20i_d1_system_ldo_list_voltage(desc, selector)

DIV_ROUND_UP(n, d) == (n + d - 1) \div d

\* linear map: divide, then map back into a voltage to verify the bound
regulator_map_voltage_linear(desc, min_uV) ==
    LET lo  == IF min_uV < desc.min_uV THEN desc.min_uV ELSE min_uV
        ret == DIV_ROUND_UP(lo - desc.min_uV, desc.uV_step)
        voltage == list_voltage(desc, ret)
    IN  IF voltage < lo THEN -EINVAL ELSE ret

\* ascending scan for the first selector whose voltage reaches min_uV
RECURSIVE map_voltage_ascend_from(_, _, _)
map_voltage_ascend_from(desc, min_uV, sel) ==
    IF sel >= desc.n_voltages THEN -EINVAL
    ELSE LET ret == list_voltage(desc, sel)
         IN  IF ret >= 0 /\ ret >= min_uV THEN sel
             ELSE map_voltage_ascend_from(desc, min_uV, sel + 1)

regulator_map_voltage_ascend(desc, min_uV) ==
    map_voltage_ascend_from(desc, min_uV, 0)

\* desc->ops->map_voltage
map_voltage(desc, min_uV) ==
    IF OpsOf(desc).map_voltage = "regulator_map_voltage_linear"
    THEN regulator_map_voltage_linear(desc, min_uV)
    ELSE regulator_map_voltage_ascend(desc, min_uV)

\* selectors and targets the ladder operations are applied to
LadderSelectors(desc) == 0 .. (desc.n_voltages + 1)

LadderTargets(desc) ==
    { list_voltage(desc, c) + d :
        c \in 0 .. (desc.n_voltages - 1), d \in (0 - Delta) .. Delta }
    \cup { 0 }

\* ------------------------------------------------------------------ state
VARIABLES
    q,            \* the ladder query in hand: operation, rail, argument, result
    compatible,   \* the compatible string the device was matched by
    regmap_ready, \* the parent's regmap can be obtained
    nvmem,        \* the "bg_trim" cell: its byte, or the negative errno of the read
    reg,          \* the register word the rail set shares (set of set bits)
    probe,        \* sun20i_regulator_probe: position, loop index, return values
    registered,   \* rails registered on the device (indexes into descs)
    attempts,     \* number of probe calls so far
    hook_runs,    \* number of calls of data->init so far
    trim_writes,  \* number of writes of the trim field by data->init so far
    thr,          \* one consumer per rail: position, operation, argument, result
    overlap       \* the latest call was made while the other consumer's update was pending

vars == << q, compatible, regmap_ready, nvmem, reg, probe, registered,
           attempts, hook_runs, trim_writes, thr, overlap >>

ladder_vars == << q >>

driver_vars == << compatible, regmap_ready, nvmem, reg, probe, registered,
                  attempts, hook_runs, trim_writes, thr, overlap >>

\* ------------------------------------------------------------ regmap side
\* regmap_update_bits: one locked read-modify-write of the masked bits
regmap_update_bits(word, mask, val) == (word \ mask) \cup (val \cap mask)

\* nvmem_cell_read_u8: a negative cell is a failing read
nvmem_cell_read_u8(cell) ==
    IF cell < 0 THEN [ ret |-> cell, val |-> 0 ]
    ELSE [ ret |-> 0, val |-> cell ]

sun20i_d1_analog_ldos_init_inverted(cell, word) ==
    LET rd == nvmem_cell_read_u8(cell)
        bg_trim == IF rd.val # 0 THEN 25 ELSE rd.val
    IN  IF rd.ret # 0
        THEN [ ret |-> rd.ret, word |-> word, wrote |-> FALSE ]
        ELSE [ ret |-> 0,
               word |-> regmap_update_bits(word, GENMASK(7, 0),
                                           ShiftLeft(bg_trim, 0)),
               wrote |-> TRUE ]

sun20i_d1_analog_ldos_init_skip_default(cell, word) ==
    LET rd == nvmem_cell_read_u8(cell)
    IN  IF rd.ret # 0
        THEN [ ret |-> rd.ret, word |-> word, wrote |-> FALSE ]
        ELSE IF rd.val = 0
        THEN [ ret |-> 0, word |-> word, wrote |-> FALSE ]
        ELSE [ ret |-> 0,
               word |-> regmap_update_bits(word, GENMASK(7, 0),
                                           ShiftLeft(rd.val, 0)),
               wrote |-> TRUE ]

\* the calibration hook: returns its errno, the register word and whether
\* it wrote the trim field (0x19 = 25 is the default, 900 mV)
sun20i_d1_analog_ldos_init(cell, word) ==
    LET rd == nvmem_cell_read_u8(cell)
        bg_trim == IF rd.val = 0 THEN 25 ELSE rd.val
    IN  IF rd.ret # 0
        THEN [ ret |-> rd.ret, word |-> word, wrote |-> FALSE ]
        ELSE [ ret |-> 0,
               word |-> regmap_update_bits(word, GENMASK(7, 0),
                                           ShiftLeft(bg_trim, 0)),
               wrote |-> TRUE ]

\* sun20i_regulator_get_regmap: the regmap, or ERR_PTR(-EPROBE_DEFER)
sun20i_regulator_get_regmap(ready) == IF ready THEN 0 ELSE 0 - EPROBE_DEFER

\* if (ret) return ret;
probe_after_init(ret) == IF ret # 0 THEN "fail" ELSE "register"

probe_after_register_ignore(err) == "register"

\* if (IS_ERR(rdev)) return PTR_ERR(rdev);
probe_after_register(err) == IF err # 0 THEN "fail" ELSE "register"

\* ------------------------------------------------------------------ inputs
\* the word before the driver touches it: trim 2, aldo code 2, hpldo enabled,
\* and a bit that belongs to no field of the driver
InitRegs == { { 1, 13, 16, 30 } }

NvmemCells == { 0 - EPROBE_DEFER, 0 }

NvmemAllCells == { 0 - EPROBE_DEFER, 0 - EINVAL } \cup (0 .. 255)

RegisterErrors == { 0, 0 - EINVAL, 0 - EPROBE_DEFER }

Threads == 1 .. 2

Data == sun20i_regulator_of_match(compatible)

Descs == Data.descs

SelInputs(desc) ==
    (0 .. MaxSel) \cup
    { desc.n_voltages - 1, desc.n_voltages }

Other(t) == 3 - t

IdleThread == [ pc |-> "idle", op |-> "none", arg |-> 0, ret |-> 0 ]

ProbeUnbound == [ pc |-> "unbound", i |-> 0, ret |-> 0, init_ret |-> 0, reg_err |-> 0 ]

\* only the analog LDOs have a "bg_trim" cell: the read fails elsewhere
InitDriver(cells) ==
    /\ compatible \in Compatibles
    /\ regmap_ready = FALSE
    /\ nvmem \in IF sun20i_regulator_of_match(compatible).init
                 THEN cells ELSE { 0 - EINVAL }
    /\ reg \in InitRegs
    /\ probe = ProbeUnbound
    /\ registered = {}
    /\ attempts = 0
    /\ hook_runs = 0
    /\ trim_writes = 0
    /\ thr = [ t \in Threads |-> IdleThread ]
    /\ overlap = FALSE

\* ------------------------------------------------------------ ladder spec
DescOf(name) == CHOOSE desc \in AllDescs : desc.name = name

LadderQuery(op, desc, arg) ==
    [ op |-> op, rail |-> desc.name, arg |-> arg,
      done |-> FALSE, ret |-> 0, back |-> 0 ]

LadderQueries ==
    UNION { { LadderQuery("list_voltage", desc, sel) :
                sel \in LadderSelectors(desc) } \cup
            { LadderQuery("round_trip", desc, sel) :
                sel \in 0 .. (desc.n_voltages - 1) } \cup
            { LadderQuery("map_voltage", desc, uV) :
                uV \in LadderTargets(desc) } : desc \in AllDescs }

InitLadder ==
    /\ q \in LadderQueries
    /\ InitDriver({ 0 })
    /\ compatible = "allwinner,sun20i-d1-analog-ldos"

\* voltage_of(rail, code); back is the voltage of the selector below
QueryListVoltage ==
    /\ q.op = "list_voltage" /\ ~q.done
    /\ q' = [ q EXCEPT !.done = TRUE,
                !.ret = list_voltage(DescOf(q.rail), q.arg),
                !.back = IF q.arg = 0 THEN 0
                         ELSE list_voltage(DescOf(q.rail), q.arg - 1) ]
    /\ UNCHANGED driver_vars

\* selector_for(rail, target_uV)
QueryMapVoltage ==
    /\ q.op = "map_voltage" /\ ~q.done
    /\ q' = [ q EXCEPT !.done = TRUE,
                !.ret = map_voltage(DescOf(q.rail), q.arg) ]
    /\ UNCHANGED driver_vars

\* selector_for(rail, voltage_of(rail, code)) for a valid code
QueryRoundTrip ==
    /\ q.op = "round_trip" /\ ~q.done
    /\ q.arg < DescOf(q.rail).n_voltages
    /\ q' = [ q EXCEPT !.done = TRUE,
                !.ret = list_voltage(DescOf(q.rail), q.arg),
                !.back = map_voltage(DescOf(q.rail),
                                     list_voltage(DescOf(q.rail), q.arg)) ]
    /\ UNCHANGED driver_vars

NextLadder == QueryListVoltage \/ QueryMapVoltage \/ QueryRoundTrip

SpecLadder == InitLadder /\ [][NextLadder]_vars


\* ------------------------------------------------------------ driver spec
NoQuery == [ op |-> "none", rail |-> "none", arg |-> 0,
             done |-> FALSE, ret |-> 0, back |-> 0 ]

\* the parent device registers its regmap
ParentReady ==
    /\ ~regmap_ready
    /\ regmap_ready' = TRUE
    /\ UNCHANGED << q, compatible, nvmem, reg, probe, registered, attempts,
                    hook_runs, trim_writes, thr, overlap >>

\* probe entry: match data, then the regmap (lines 190-198)
ProbeStart ==
    /\ probe.pc = "unbound"
    /\ attempts < MaxAttempts
    /\ attempts' = attempts + 1
    /\ LET err == sun20i_regulator_get_regmap(regmap_ready)
       IN  probe' = IF err # 0
                    THEN [ ProbeUnbound EXCEPT !.ret = err ]
                    ELSE [ ProbeUnbound EXCEPT
                             !.pc = IF Data.init THEN "init" ELSE "register" ]
    /\ UNCHANGED << q, compatible, regmap_ready, nvmem, reg, registered,
                    hook_runs, trim_writes, thr, overlap >>

\* ret = data->init(dev, regmap); if (ret) return ret; (lines 198-202)
ProbeInit ==
    /\ probe.pc = "init"
    /\ LET r == sun20i_d1_analog_ldos_init(nvmem, reg)
       IN  /\ reg' = r.word
           /\ trim_writes' = trim_writes + (IF r.wrote THEN 1 ELSE 0)
           /\ probe' = [ probe EXCEPT !.pc = probe_after_init(r.ret),
                                      !.ret = r.ret, !.init_ret = r.ret ]
    /\ hook_runs' = hook_runs + 1
    /\ UNCHANGED << q, compatible, regmap_ready, nvmem, registered, attempts, thr, overlap >>

\* one iteration of the registration loop (lines 209-216)
ProbeRegister ==
    /\ probe.pc = "register"
    /\ probe.i < Data.ndescs
    /\ \E err \in RegisterErrors :
         /\ registered' = IF err = 0 THEN registered \cup { probe.i + 1 }
                          ELSE registered
         /\ probe' = [ probe EXCEPT
                         !.pc = probe_after_register(err),
                         !.i = @ + 1,
                         !.ret = err,
                         !.reg_err = IF err # 0 THEN err ELSE @ ]
    /\ UNCHANGED << q, compatible, regmap_ready, nvmem, reg, attempts,
                    hook_runs, trim_writes, thr, overlap >>

\* return 0 (line 218): the device is bound
ProbeReturn ==
    /\ probe.pc = "register"
    /\ probe.i >= Data.ndescs
    /\ probe' = [ probe EXCEPT !.pc = "bound", !.ret = 0 ]
    /\ UNCHANGED << q, compatible, regmap_ready, nvmem, reg, registered,
                    attempts, hook_runs, trim_writes, thr, overlap >>

\* a failed probe returns: the device-managed registrations are released
ProbeFail ==
    /\ probe.pc = "fail"
    /\ probe' = [ probe EXCEPT !.pc = "unbound" ]
    /\ registered' = {}
    /\ UNCHANGED << q, compatible, regmap_ready, nvmem, reg, attempts,
                    hook_runs, trim_writes, thr, overlap >>

\* set_selector(rail, code): range check, then the masked update is pending
CallSetVoltageSel(t, sel) ==
    /\ thr[t].pc = "idle"
    /\ t \in registered
    /\ thr' = [ thr EXCEPT ![t] =
                  [ pc   |-> IF sel >= Descs[t].n_voltages THEN "idle" ELSE "update",
                    op   |-> "set_voltage_sel",
                    arg  |-> sel,
                    ret  |-> IF sel >= Descs[t].n_voltages THEN 0 - EINVAL ELSE 0 ] ]
    /\ overlap' = (thr[Other(t)].pc = "update")
    /\ UNCHANGED << q, compatible, regmap_ready, nvmem, reg, probe, registered,
                    attempts, hook_runs, trim_writes >>

\* enable(rail) / disable(rail): unsupported without the operation
CallEnable(t, on) ==
    /\ thr[t].pc = "idle"
    /\ t \in registered
    /\ LET has == IF on THEN OpsOf(Descs[t]).enable # "NULL"
                  ELSE OpsOf(Descs[t]).disable # "NULL"
       IN  thr' = [ thr EXCEPT ![t] =
                      [ pc   |-> IF has THEN "update" ELSE "idle",
                        op   |-> IF on THEN "enable" ELSE "disable",
                        arg  |-> 0,
                        ret  |-> IF has THEN 0 ELSE 0 - EINVAL ] ]
    /\ overlap' = (thr[Other(t)].pc = "update")
    /\ UNCHANGED << q, compatible, regmap_ready, nvmem, reg, probe, registered,
                    attempts, hook_runs, trim_writes >>

\* mask and value of the pending update of thread t
UpdateMask(t) ==
    IF thr[t].op = "set_voltage_sel" THEN Descs[t].vsel_mask
    ELSE Descs[t].enable_mask

UpdateVal(t) ==
    IF thr[t].op = "set_voltage_sel"
    THEN ShiftLeft(thr[t].arg, ffs_m1(Descs[t].vsel_mask))
    ELSE IF thr[t].op = "enable" THEN Descs[t].enable_mask
    ELSE {}

\* the pending regmap_update_bits of thread t, one register transaction
RegmapUpdate(t) ==
    /\ thr[t].pc = "update"
    /\ reg' = regmap_update_bits(reg, UpdateMask(t), UpdateVal(t))
    /\ thr' = [ thr EXCEPT ![t].pc = "idle" ]
    /\ UNCHANGED << q, compatible, regmap_ready, nvmem, probe, registered,
                    attempts, hook_runs, trim_writes, overlap >>

Init == q = NoQuery /\ InitDriver(NvmemCells)

Next ==
    \/ ParentReady
    \/ ProbeStart
    \/ ProbeInit
    \/ ProbeRegister
    \/ ProbeReturn
    \/ ProbeFail
    \/ \E t \in Threads : \E sel \in SelInputs(Descs[t]) : CallSetVoltageSel(t, sel)
    \/ \E t \in Threads : \E on \in BOOLEAN : CallEnable(t, on)
    \/ \E t \in Threads : RegmapUpdate(t)

Spec == Init /\ [][Next]_vars

\* bring-up alone, over every calibration byte
InitCal == q = NoQuery /\ InitDriver(NvmemAllCells)

NextCal ==
    \/ ParentReady
    \/ ProbeStart
    \/ ProbeInit
    \/ ProbeRegister
    \/ ProbeReturn
    \/ ProbeFail

SpecCal == InitCal /\ [][NextCal]_vars

\* ------------------------------------------------------------------ claims
\* the two fractional rails as the configuration states them
FractionalRails ==
    { [ name |-> "ldoa", min_uV |-> 1600000, step_uV |-> 13333, n_codes |-> 32 ],
      [ name |-> "ldob", min_uV |-> 1166666, step_uV |-> 13333, n_codes |-> 64 ] }

\* C1 (as stated): on a fractional rail, every code in [0, n_codes) maps to
\* min_uV + step_uV*code + ((code + 1 + (min_uV mod 3)) / 3).
C1_Mod3Correction ==
    \A f \in FractionalRails :
        (q.op = "list_voltage" /\ q.done /\ q.rail = f.name /\ q.arg < f.n_codes)
        => q.ret = f.min_uV + f.step_uV * q.arg
                   + ((q.arg + 1 + (f.min_uV % 3)) \div 3)

\* C1 (amended): on a fractional rail, every code in [0, n_codes) maps to
\* min_uV + step_uV*code + ((code + 1 + (min_uV mod 4)) / 3).
C1_Mod4Correction ==
    \A f \in FractionalRails :
        (q.op = "list_voltage" /\ q.done /\ q.rail = f.name /\ q.arg < f.n_codes)
        => q.ret = f.min_uV + f.step_uV * q.arg
                   + ((q.arg + 1 + (f.min_uV % 4)) \div 3)

\* code 1 of ldoa, where the mod-3 and the mod-4 correction differ
C1_Witness ==
    q.op = "list_voltage" /\ q.done /\ q.rail = "ldoa" /\ q.arg = 1 /\ q.ret = 1613333

\* the true ladder value (num / 3 microvolts) rounded to the nearest integer
RoundThirds(num) == (2 * num + 3) \div 6

\* C2: on ldoa, code c maps to 1600000 + c*40000/3 rounded to the nearest
\* microvolt (1600000 at code 0), and each voltage is above the one before.
C2_LdoaExactlyRounded ==
    (q.op = "list_voltage" /\ q.done /\ q.rail = "ldoa" /\ q.arg < 32)
    => /\ q.ret = RoundThirds(3 * 1600000 + 40000 * q.arg)
       /\ (q.arg = 0 => q.ret = 1600000)
       /\ (q.arg >= 1 => q.back < q.ret)

C2_Witness ==
    q.op = "list_voltage" /\ q.done /\ q.rail = "ldoa" /\ q.arg = 31
    /\ q.ret = 2013333 /\ q.back = 2000000

\* C3: on each of the four rails, selector_for(voltage_of(c)) = c for every
\* valid code c.
C3_RoundTrip ==
    (q.op = "round_trip" /\ q.done /\ q.rail \in { "aldo", "hpldo", "ldoa", "ldob" })
    => q.back = q.arg

C3_Witness ==
    q.op = "round_trip" /\ q.done /\ q.rail = "ldob" /\ q.arg = 63 /\ q.back = 63

\* C4: selector_for returns the smallest code whose voltage reaches the
\* target, and fails exactly when the target is above the top of the ladder.
C4_SmallestCodeAtOrAbove ==
    (q.op = "map_voltage" /\ q.done) =>
        LET desc == DescOf(q.rail)
            top  == list_voltage(desc, desc.n_voltages - 1)
        IN  /\ (q.ret = 0 - EINVAL) <=> (q.arg > top)
            /\ q.arg <= top =>
                 /\ q.ret \in 0 .. (desc.n_voltages - 1)
                 /\ list_voltage(desc, q.ret) >= q.arg
                 /\ \A c \in 0 .. (q.ret - 1) : list_voltage(desc, c) < q.arg

\* a target strictly between two ladder voltages of a fractional rail
C4_Witness ==
    q.op = "map_voltage" /\ q.done /\ q.rail = "ldoa" /\ q.ret = 4 /\ q.arg = 1640001

\* the trim field of the analog power register
TrimField == 0 .. 7

\* the fields of the shared word that an operation of thread t must not touch
ForeignFields(t) ==
    { Descs[Other(t)].vsel_mask, Descs[Other(t)].enable_mask }
    \cup (IF Data.init THEN { TrimField } ELSE {})

\* C5: a set_selector, enable or disable of one rail leaves the other rail's
\* selector and enable fields and the trim field bit-for-bit unchanged, and
\* changes no bit outside the field it addresses.
C5_RailOpsKeepForeignFields ==
    [][ \A t \in Threads :
          RegmapUpdate(t) =>
            /\ \A mask \in ForeignFields(t) : (reg' \cap mask) = (reg \cap mask)
            /\ (reg' \ UpdateMask(t)) = (reg \ UpdateMask(t)) ]_vars

\* aldo was set to code 7 while hpldo holds code 1, is enabled, and the trim
\* field holds the default 0x19
C5_Witness ==
    /\ compatible = "allwinner,sun20i-d1-analog-ldos"
    /\ thr[1].op = "set_voltage_sel" /\ thr[1].pc = "idle" /\ thr[1].ret = 0
    /\ Field(reg, GENMASK(14, 12)) = 7
    /\ Field(reg, GENMASK(10, 8)) = 1
    /\ 30 \in reg
    /\ Field(reg, TrimField) = 25

\* the number of codes of each rail as the configuration states them
ClaimNCodes(name) ==
    IF name = "ldoa" THEN 32 ELSE IF name = "ldob" THEN 64 ELSE 8

C7_TrimIsByteOrDefault ==
    (hook_runs > 0 /\ nvmem >= 0) =>
        Field(reg, TrimField) = (IF nvmem = 0 THEN 25 ELSE nvmem)

\* an unprovisioned cell over a register whose trim field held 2
C7_Witness ==
    /\ hook_runs > 0 /\ nvmem = 0 /\ trim_writes > 0
    /\ reg \cap TrimField = { 0, 3, 4 }
    /\ 13 \in reg

\* C8: bring-up is all-or-nothing: a failing hook or registration makes the
\* probe fail, after a failed probe no rail is registered, and the device is
\* bound only with every rail registered and no step failed.
C8_BringUpAllOrNothing ==
    /\ (probe.init_ret # 0 \/ probe.reg_err # 0) => probe.pc \in { "fail", "unbound" }
    /\ probe.pc = "unbound" => registered = {}
    /\ (probe.pc = "unbound" /\ attempts > 0) => probe.ret < 0
    /\ probe.pc = "bound" =>
         /\ registered = 1 .. Data.ndescs
         /\ probe.ret = 0 /\ probe.init_ret = 0 /\ probe.reg_err = 0

\* the second rail failed to register after the first had been registered
C8_Witness ==
    /\ probe.pc = "unbound" /\ probe.i = 2 /\ probe.reg_err # 0
    /\ probe.ret < 0 /\ registered = {}

\* C9 (as stated): over any sequence of bring-up attempts the hook writes the
\* trim field at most once.
C9_TrimWrittenAtMostOnce == trim_writes <= 1

\* C9 (amended): every run of the hook on a readable cell writes the trim
\* field, one write per run and one run at most per attempt; a run on an
\* unreadable cell writes nothing.
C9_TrimWrittenOnEveryHookRun ==
    /\ hook_runs <= attempts
    /\ nvmem >= 0 => trim_writes = hook_runs
    /\ nvmem < 0 => trim_writes = 0

\* the hook ran and wrote again in a second attempt
C9_Witness ==
    /\ attempts = 2 /\ hook_runs = 2 /\ trim_writes = 2 /\ probe.init_ret = 0

\* the field written by the last completed operation of thread t holds the
\* value written
LastWriteHolds(t) ==
    (thr[t].pc = "idle" /\ thr[t].ret = 0) =>
        /\ thr[t].op = "set_voltage_sel" =>
             Field(reg, Descs[t].vsel_mask) = thr[t].arg
        /\ thr[t].op = "enable" => Descs[t].enable_mask \subseteq reg
        /\ thr[t].op = "disable" => (Descs[t].enable_mask \cap reg) = {}

\* C10: whatever the interleaving of the two callers' read-modify-write
\* operations on different fields of the word, each field holds the value
\* last written to it: no update is lost.
C10_NoLostUpdate == \A t \in Threads : LastWriteHolds(t)

\* the latest call, aldo's set_selector(7) or hpldo's disable, was made
\* while the other's update was pending, and both have completed
C10_Witness ==
    /\ compatible = "allwinner,sun20i-d1-analog-ldos"
    /\ thr[1].pc = "idle" /\ thr[1].op = "set_voltage_sel" /\ thr[1].arg = 7
    /\ thr[1].ret = 0
    /\ thr[2].pc = "idle" /\ thr[2].op = "disable" /\ thr[2].ret = 0
    /\ overlap
    /\ Field(reg, GENMASK(14, 12)) = 7 /\ 30 \notin reg

====
